---- MODULE Spec2Model ----
(***************************************************************************)
(* State-machine model of creme/tree/isoup_tree_regressor.py               *)
(* (iSOUPTreeRegressor) and creme/imblearn/random.py (RandomUnderSampler). *)
(*                                                                         *)
(* The tree has one feature, "a".  A sample x either carries a value for   *)
(* it or misses it.  A target map y is a function from a subset of Keys.   *)
(* A mean (sum / count) is kept as the pair <<sum, count>>, so no rounding *)
(* takes part in a comparison of two means.                                *)
(***************************************************************************)
EXTENDS Integers, FiniteSets, Sequences, TLC

\* ------------------------------------------------------------------ bounds
MaxCalls    == 3      \* learn_one calls in one behaviour
MaxNodes    == 6      \* node objects ever allocated by one tree
GracePeriod == 2      \* grace_period the tree is configured with
MaxDeactivations == 1 \* leaves the memory limit deactivates in one behaviour
MaxCount    == 4      \* fit_one calls per class in one sampler behaviour

\* ------------------------------------------------------------------ inputs
Keys    == {"t", "u"}
Vals    == {0, 1, 2}
Feat    == "a"

NoX  == [f \in {} |-> 0]
XSet == {NoX} \cup {[f \in {Feat} |-> v] : v \in Vals}
\* target maps with the weight they are learnt with: a plain sample, a sample
\* of weight 0 that brings a new target key, and a sample of weight 2
YWSet == { <<[k \in {"t"} |-> 2], 1>>,
           <<[k \in {"t", "u"} |-> IF k = "t" THEN 1 ELSE 2], 0>>,
           <<[k \in {"t"} |-> 1], 2>> }

LeafPredictionArgs == {"mean", "model", "adaptive", "bogus"}
SplitCriterionArgs == {"icvr", "vr", "mse"}

Classes      == {"a", "b", "c"}
NoPivot      == "None"

\* ------------------------------------------------------------------- state
VARIABLES
    leaf_prediction,   \* self._leaf_prediction
    split_criterion,   \* self._split_criterion
    targets,           \* self._targets
    root,              \* self._tree_root, 0 for None
    nodes,             \* every node object ever allocated, by identity
    heap,              \* the _leaf_models dict objects, by identity
    calls,             \* learn_one calls so far
    deactivations,     \* leaves deactivated so far
    last,              \* what the last call was given and what it did
    result,            \* what the last predict_one returned
    desired_dist,      \* RandomUnderSampler.desired_dist, a float per class
    actual_dist,       \* RandomUnderSampler._actual_dist
    order,             \* insertion order of _actual_dist's keys
    pivot,             \* RandomUnderSampler._pivot
    fit                \* what the last fit_one was given and what it did

treeVars    == <<leaf_prediction, split_criterion, targets, root, nodes, heap,
                 calls, deactivations, last, result>>
samplerVars == <<desired_dist, actual_dist, order, pivot, fit>>
vars        == <<leaf_prediction, split_criterion, targets, root, nodes, heap,
                 calls, deactivations, last, result, desired_dist, actual_dist, order, pivot, fit>>

\* ---------------------------------------------------------------- constants
TARGET_MEAN == "mean"
MODEL       == "model"
ADAPTIVE    == "adaptive"
ICVR        == "icvr"

NoNode == 0
Ids    == 1..MaxNodes

\* VectorDict: missing keys read as 0
ZeroVec == [k \in Keys |-> 0]
VectorDict(y) == [k \in Keys |-> IF k \in DOMAIN y THEN y[k] ELSE 0]

ZeroStats == [n |-> 0, s |-> ZeroVec, q |-> ZeroVec]
NoObs     == [v \in Vals |-> ZeroStats]
NoKids    == [v \in Vals |-> NoNode]
NoModel   == -1
EmptyModels == [k \in Keys |-> NoModel]

FreeNode == [kind |-> "free", active |-> FALSE, depth |-> 0, stats |-> ZeroStats,
             cnt |-> 0, obs |-> NoObs, mref |-> 0, fmse_mean |-> ZeroVec,
             fmse_model |-> ZeroVec, children |-> NoKids]

IsFree(ns, i)  == ns[i].kind = "free"
FreeCount(ns)  == Cardinality({i \in Ids : IsFree(ns, i)})

\* ------------------------------------------------------------------ setters
\* a faulty variant of leaf_prediction_setter: the value is stored unchecked
leaf_prediction_unchecked(v) == v

\* the leaf_prediction setter
leaf_prediction_setter(v) ==
    IF v \notin {TARGET_MEAN, MODEL, ADAPTIVE} THEN MODEL ELSE v

\* the split_criterion setter
split_criterion_setter(v) ==
    LET c == IF v = "vr" THEN ICVR ELSE v
    IN  IF c # ICVR THEN ICVR ELSE c


\* --------------------------------------------------------- node operations
Sq(v) == v * v

\* leaf statistics: stats[0] += w, stats[1] += w * y, stats[2] += w * y * y
UpdateStats(st, y, w) ==
    [n |-> st.n + w,
     s |-> [k \in Keys |-> st.s[k] + w * VectorDict(y)[k]],
     q |-> [k \in Keys |-> st.q[k] + w * Sq(VectorDict(y)[k])]]

\* the running mean of one target, floored; 0 while nothing was observed
MeanPred(st, k) == IF st.n = 0 THEN 0 ELSE st.s[k] \div st.n

\* the leaf_model collaborator: one gradient step of rate 1/2 towards v
ModelFit(m, v) == ((IF m = NoModel THEN 0 ELSE m) + v + 1) \div 2

\* fading squared error with decay 1/2
Fade(f, pred, v) == (f \div 2) + Sq(pred - v)

\* SplitNode.filter_instance_to_leaf / LearningNode.filter_instance_to_leaf
RECURSIVE filter_instance_to_leaf(_, _, _, _)
filter_instance_to_leaf(ns, n, parent, x) ==
    IF ns[n].kind = "leaf" THEN [node |-> n, parent |-> parent]
    ELSE IF Feat \notin DOMAIN x THEN [node |-> n, parent |-> parent]
    ELSE LET c == ns[n].children[x[Feat]]
         IN  IF c = NoNode THEN [node |-> NoNode, parent |-> n]
             ELSE filter_instance_to_leaf(ns, c, n, x)

\* a faulty variant of CopyLeafModels: the child keeps the parent's dict object
ShareLeafModels(ns, hp, id, parent) ==
    IF parent = NoNode
    THEN [mref |-> id, models |-> EmptyModels]
    ELSE [mref |-> ns[parent].mref, models |-> hp[ns[parent].mref]]

\* leaf_models = {} / deepcopy(parent._leaf_models): a new dict object `id`
CopyLeafModels(ns, hp, id, parent) ==
    IF parent = NoNode
    THEN [mref |-> id, models |-> EmptyModels]
    ELSE [mref |-> id, models |-> hp[ns[parent].mref]]

\* _new_learning_node: the node object `id` and the content of its model dict
new_learning_node(ns, hp, id, initial_stats, parent, is_active) ==
    LET depth == IF parent # NoNode THEN ns[parent].depth + 1 ELSE 0
        lm    == IF leaf_prediction \in {MODEL, ADAPTIVE}
                 THEN CopyLeafModels(ns, hp, id, parent)
                 ELSE [mref |-> 0, models |-> EmptyModels]
        base  == [kind |-> "leaf", active |-> is_active, depth |-> depth,
                  stats |-> initial_stats, cnt |-> 0, obs |-> NoObs,
                  mref |-> lm.mref, fmse_mean |-> ZeroVec, fmse_model |-> ZeroVec,
                  children |-> NoKids]
        rec   == IF leaf_prediction \in {TARGET_MEAN, MODEL} \/ parent = NoNode
                 THEN base
                 ELSE IF is_active
                 THEN [base EXCEPT !.fmse_mean  = ns[parent].fmse_mean,
                                   !.fmse_model = ns[parent].fmse_model]
                 ELSE \* _fmse_mean is assigned twice, _fmse_model never
                      [base EXCEPT !.fmse_mean = ns[parent].fmse_model]
    IN  [rec |-> rec, models |-> lm.models]

\* LearningNode.learn_one of the mean / model / adaptive leaves
LeafLearn(rec, models, x, y, w) ==
    LET st    == rec.stats
        meanp == [k \in Keys |-> MeanPred(st, k)]
        modp  == [k \in Keys |-> IF models[k] = NoModel THEN meanp[k] ELSE models[k]]
        nm    == IF rec.mref = 0 THEN models
                 ELSE [k \in Keys |-> IF k \in DOMAIN y
                                      THEN ModelFit(models[k], y[k]) ELSE models[k]]
        adapt == leaf_prediction = ADAPTIVE
        fmean == [k \in Keys |-> IF adapt /\ k \in DOMAIN y
                                 THEN Fade(rec.fmse_mean[k], meanp[k], y[k])
                                 ELSE rec.fmse_mean[k]]
        fmod  == [k \in Keys |-> IF adapt /\ k \in DOMAIN y
                                 THEN Fade(rec.fmse_model[k], modp[k], y[k])
                                 ELSE rec.fmse_model[k]]
        ob    == IF rec.active /\ Feat \in DOMAIN x
                 THEN [rec.obs EXCEPT ![x[Feat]] = UpdateStats(@, y, w)]
                 ELSE rec.obs
    IN  [rec    |-> [rec EXCEPT !.stats = UpdateStats(st, y, w), !.cnt = @ + w,
                                !.obs = ob, !.fmse_mean = fmean, !.fmse_model = fmod],
         models |-> nm]

\* what a call of the factory is remembered by: the leaf made, the parent given,
\* and the model dict and fading errors the parent held when it was made
Made(ns, id, parent, is_active, models) ==
    [id |-> id, parent |-> parent, active |-> is_active, models |-> models,
     pmean  |-> IF parent = NoNode THEN ZeroVec ELSE ns[parent].fmse_mean,
     pmodel |-> IF parent = NoNode THEN ZeroVec ELSE ns[parent].fmse_model]

\* the k-th smallest free identity
NthFree(ns, k) ==
    CHOOSE i \in Ids : IsFree(ns, i) /\ Cardinality({j \in Ids : IsFree(ns, j) /\ j < i}) = k - 1

Observed(rec) == {v \in Vals : rec.obs[v].n > 0}
Rank(S, v)    == Cardinality({u \in S : u <= v})

\* put node `new` where `old` hangs: at the root or under `parent`
Rehang(ns, rt, parent, old, new) ==
    [root  |-> IF parent = NoNode THEN new ELSE rt,
     nodes |-> IF parent = NoNode THEN ns
               ELSE [ns EXCEPT ![parent].children =
                        [v \in Vals |-> IF @[v] = old THEN new ELSE @[v]]]]

\* _attempt_to_split, once the bound test chose a real candidate: a split
\* node on Feat with the leaf's statistics, one child per observed branch
CommitSplit(ns, hp, rt, leaf, parent) ==
    LET obsd  == Observed(ns[leaf])
        sid   == NthFree(ns, 1)
        cid   == [v \in Vals |-> IF v \in obsd THEN NthFree(ns, 1 + Rank(obsd, v)) ELSE NoNode]
        kid   == [v \in obsd |-> new_learning_node(ns, hp, cid[v], ns[leaf].obs[v], leaf, TRUE)]
        split == [FreeNode EXCEPT !.kind = "split", !.depth = ns[leaf].depth,
                                  !.stats = ns[leaf].stats, !.children = cid]
        ns1   == [i \in Ids |-> IF i = sid THEN split
                                ELSE IF \E v \in obsd : cid[v] = i
                                THEN kid[CHOOSE v \in obsd : cid[v] = i].rec
                                ELSE ns[i]]
        hp1   == [i \in Ids |-> IF \E v \in obsd : cid[v] = i /\ kid[v].rec.mref = i
                                THEN kid[CHOOSE v \in obsd : cid[v] = i].models
                                ELSE hp[i]]
        hung  == Rehang(ns1, rt, parent, leaf, sid)
    IN  [nodes |-> hung.nodes, heap |-> hp1, root |-> hung.root,
         created |-> {Made(ns, cid[v], leaf, TRUE, kid[v].models) : v \in obsd}]

NoVal == [k \in Keys |-> <<0, 0>>]

\* what a predict_one call is remembered by: how it answered, the node the
\* traversal stopped at (NoNode for a branch without a child), the node whose
\* statistics it read, and the answer
Answer(kind, stop, node, val) == [kind |-> kind, stop |-> stop, node |-> node, val |-> val]

Unset == Answer("unset", NoNode, NoNode, NoVal)

ModelsOf(ns, hp, n) == IF ns[n].mref = 0 THEN EmptyModels ELSE hp[ns[n].mref]

NoY    == [k \in {} |-> 0]
NoEval == [ran |-> FALSE, cnt |-> 0, committed |-> FALSE]
Idle   == [op |-> "init", x |-> NoX, y |-> NoY, w |-> 0, arg |-> "", leaf |-> NoNode,
           eval |-> NoEval, created |-> {}]

\* learn_one, step 1: if the tree is empty, create a leaf node as the root
WithRoot(t) ==
    IF t.root # NoNode THEN t
    ELSE LET rid == NthFree(t.nodes, 1)
             new == new_learning_node(t.nodes, t.heap, rid, ZeroStats, NoNode, TRUE)
         IN  [t EXCEPT !.nodes[rid] = new.rec,
                       !.heap = IF new.rec.mref # 0 THEN [@ EXCEPT ![new.rec.mref] = new.models]
                                ELSE @,
                       !.root = rid,
                       !.created = @ \cup {Made(t.nodes, rid, NoNode, TRUE, new.models)}]

\* learn_one, step 2: sort the instance; a branch without a child gets a new leaf
WithLeaf(t, x) ==
    LET found == filter_instance_to_leaf(t.nodes, t.root, NoNode, x)
    IN  IF found.node # NoNode
        THEN [t EXCEPT !.leaf = found.node, !.parent = found.parent]
        ELSE LET kid == NthFree(t.nodes, 1)
                 new == new_learning_node(t.nodes, t.heap, kid, ZeroStats, NoNode, TRUE)
             IN  [t EXCEPT !.nodes[kid] = new.rec,
                           !.nodes[found.parent].children[x[Feat]] = kid,
                           !.heap = IF new.rec.mref # 0
                                    THEN [@ EXCEPT ![new.rec.mref] = new.models] ELSE @,
                           !.leaf = kid, !.parent = found.parent,
                           !.created = @ \cup {Made(t.nodes, kid, NoNode, TRUE, new.models)}]

\* learn_one, step 3: a learning node learns the sample; a split node, reached
\* because x misses the feature, learns nothing
Learnt(t, x, y, w) ==
    IF t.nodes[t.leaf].kind # "leaf" THEN t
    ELSE LET lrn == LeafLearn(t.nodes[t.leaf], ModelsOf(t.nodes, t.heap, t.leaf), x, y, w)
         IN  [t EXCEPT !.nodes[t.leaf] = lrn.rec,
                       !.heap = IF lrn.rec.mref # 0 THEN [@ EXCEPT ![lrn.rec.mref] = lrn.models]
                                ELSE @]

SplitRuns(t)  == /\ t.nodes[t.leaf].kind = "leaf"
                 /\ t.nodes[t.leaf].active
                 /\ t.nodes[t.leaf].cnt >= GracePeriod
CanSplit(t)   == Cardinality(Observed(t.nodes[t.leaf])) >= 2

\* a faulty variant of ResetCounter: a committed split leaves the counter alone
ResetUnlessCommitted(ns, leaf, committed) ==
    IF committed THEN ns ELSE [ns EXCEPT ![leaf].cnt = 0]

\* the counter of the leaf is reset whatever the attempt did
ResetCounter(ns, leaf, committed) == [ns EXCEPT ![leaf].cnt = 0]

\* learn_one, step 4: past the grace period an active leaf attempts to split,
\* and its counter is reset
Attempted(t, commit) ==
    IF ~SplitRuns(t) THEN t
    ELSE LET cnt  == t.nodes[t.leaf].cnt
             does == commit /\ CanSplit(t)
             spl  == CommitSplit(t.nodes, t.heap, t.root, t.leaf, t.parent)
             u    == IF does
                     THEN [t EXCEPT !.nodes = spl.nodes, !.heap = spl.heap, !.root = spl.root,
                                    !.created = @ \cup spl.created]
                     ELSE t
         IN  [u EXCEPT !.nodes = ResetCounter(@, t.leaf, does),
                       !.eval = [ran |-> TRUE, cnt |-> cnt, committed |-> does]]

\* the node objects a call allocates
Needs(t, x, commit) ==
    LET a == IF t.root = NoNode THEN 1 ELSE 0
        b == IF t.root # NoNode
                /\ filter_instance_to_leaf(t.nodes, t.root, NoNode, x).node = NoNode
             THEN 1 ELSE 0
    IN  a + b

\* the whole of HoeffdingTreeRegressor.learn_one on the tree (ns, hp, rt)
TreeLearn(ns, hp, rt, x, y, w, commit) ==
    LET t0 == [nodes |-> ns, heap |-> hp, root |-> rt, leaf |-> NoNode, parent |-> NoNode,
               eval |-> NoEval, created |-> {}]
        t3 == Learnt(WithLeaf(WithRoot(t0), x), x, y, w)
    IN  IF Needs(t0, x, commit) > FreeCount(ns) THEN [ok |-> FALSE]
        ELSE IF commit /\ ~(SplitRuns(t3) /\ CanSplit(t3)) THEN [ok |-> FALSE]
        ELSE IF commit /\ FreeCount(t3.nodes) < 1 + Cardinality(Observed(t3.nodes[t3.leaf]))
        THEN [ok |-> FALSE]
        ELSE [ok |-> TRUE, t |-> Attempted(t3, commit)]

\* a faulty variant of UpdateTargets: the set is replaced by the keys of y
ReplaceTargets(ts, y) == DOMAIN y

\* a faulty variant of UpdateTargets: the keys of y are dropped
KeepTargets(ts, y) == ts

\* self._targets.update(y.keys())
UpdateTargets(ts, y) == ts \cup DOMAIN y

\* iSOUPTreeRegressor.learn_one(x, y, sample_weight=w)
LearnOne(x, y, w, commit) ==
    /\ calls < MaxCalls
    /\ LET r == TreeLearn(nodes, heap, root, x, y, w, commit)
       IN  /\ r.ok
           /\ targets' = UpdateTargets(targets, y)
           /\ nodes' = r.t.nodes
           /\ heap' = r.t.heap
           /\ root' = r.t.root
           /\ last' = [op |-> "learn_one", x |-> x, y |-> y, w |-> w, arg |-> "",
                       leaf |-> IF r.t.nodes[r.t.leaf].kind = "split" /\ ~r.t.eval.ran
                                THEN NoNode ELSE r.t.leaf,
                       eval |-> r.t.eval, created |-> r.t.created]
    /\ calls' = calls + 1
    /\ UNCHANGED deactivations
    /\ result' = Unset
    /\ UNCHANGED <<leaf_prediction, split_criterion>>
    /\ UNCHANGED samplerVars

\* (stats[1] / stats[0]).to_dict(): each sum over the count; it raises
\* ZeroDivisionError when the count is 0
MeanOf(ns, n, how, stop) ==
    IF ns[n].stats.n = 0
    THEN Answer("ZeroDivisionError", stop, n, NoVal)
    ELSE Answer(how, stop, n, [k \in Keys |-> <<ns[n].stats.s[k], ns[n].stats.n>>])

\* LearningNode.predict_one of the mean / model / adaptive leaves
LeafPredict(ns, hp, n) ==
    LET st    == ns[n].stats
        ms    == ModelsOf(ns, hp, n)
        mean  == [k \in Keys |-> <<st.s[k], st.n>>]
        model == [k \in Keys |-> IF ms[k] = NoModel THEN mean[k] ELSE <<ms[k], 1>>]
        pick  == [k \in Keys |-> IF ns[n].fmse_mean[k] <= ns[n].fmse_model[k]
                                 THEN mean[k] ELSE model[k]]
        val   == IF leaf_prediction = TARGET_MEAN THEN mean
                 ELSE IF leaf_prediction = MODEL THEN model ELSE pick
    IN  Answer(IF \E k \in targets : val[k][2] = 0 THEN "undefined" ELSE "leaf", n, n, val)

\* a faulty variant of Prediction: an untrained tree raises instead of answering None
PredictionRaising(x) ==
    IF root # NoNode
    THEN LET found_node == filter_instance_to_leaf(nodes, root, NoNode, x)
             node       == found_node.node
         IN  IF node # NoNode
             THEN IF nodes[node].kind = "leaf"
                  THEN LeafPredict(nodes, heap, node)
                  ELSE MeanOf(nodes, node, "own_mean", node)
             ELSE MeanOf(nodes, found_node.parent, "parent_mean", NoNode)
    ELSE Answer("AttributeError", NoNode, NoNode, NoVal)

\* a faulty variant of Prediction: no test for a missing node, whose stats are read
PredictionNoFallback(x) ==
    IF root # NoNode
    THEN LET found_node == filter_instance_to_leaf(nodes, root, NoNode, x)
             node       == found_node.node
         IN  IF node # NoNode
             THEN IF nodes[node].kind = "leaf"
                  THEN LeafPredict(nodes, heap, node)
                  ELSE MeanOf(nodes, node, "own_mean", node)
             ELSE Answer("AttributeError", NoNode, NoNode, NoVal)
    ELSE Answer("None", NoNode, NoNode, NoVal)

\* what predict_one returns on the tree as it stands
Prediction(x) ==
    IF root # NoNode
    THEN LET found_node == filter_instance_to_leaf(nodes, root, NoNode, x)
             node       == found_node.node
         IN  IF node # NoNode
             THEN IF nodes[node].kind = "leaf"
                  THEN LeafPredict(nodes, heap, node)
                  ELSE MeanOf(nodes, node, "own_mean", node)
             ELSE MeanOf(nodes, found_node.parent, "parent_mean", NoNode)
    ELSE Answer("None", NoNode, NoNode, NoVal)

\* a faulty variant of PredictOne: the sample is counted in the node it reaches
PredictOneCounting(x) ==
    /\ result' = Prediction(x)
    /\ last' = [Idle EXCEPT !.op = "predict_one"]
    /\ nodes' = IF result'.node = NoNode THEN nodes
                ELSE [nodes EXCEPT ![result'.node].stats.n = @ + 1]
    /\ UNCHANGED <<leaf_prediction, split_criterion, targets, root, heap, calls, deactivations>>
    /\ UNCHANGED samplerVars

\* iSOUPTreeRegressor.predict_one(x)
PredictOne(x) ==
    /\ result' = Prediction(x)
    /\ last' = [Idle EXCEPT !.op = "predict_one"]
    /\ UNCHANGED <<leaf_prediction, split_criterion, targets, root, nodes, heap, calls, deactivations>>
    /\ UNCHANGED samplerVars

\* tree.leaf_prediction = v
SetLeafPrediction(v) ==
    /\ leaf_prediction' = leaf_prediction_setter(v)
    /\ last' = [Idle EXCEPT !.op = "set_leaf_prediction", !.arg = v]
    /\ UNCHANGED <<split_criterion, targets, root, nodes, heap, calls, deactivations, result>>
    /\ UNCHANGED samplerVars

\* tree.split_criterion = v
SetSplitCriterion(v) ==
    /\ split_criterion' = split_criterion_setter(v)
    /\ last' = [Idle EXCEPT !.op = "set_split_criterion", !.arg = v]
    /\ UNCHANGED <<leaf_prediction, targets, root, nodes, heap, calls, deactivations, result>>
    /\ UNCHANGED samplerVars

\* the nodes the tree still holds
Live(n) ==
    /\ root # NoNode
    /\ \/ n = root
       \/ \E p \in Ids : nodes[p].kind = "split" /\ \E v \in Vals : nodes[p].children[v] = n

\* _deactivate_learning_node: an active leaf is replaced, where it hangs, by
\* the inactive leaf the factory builds from it
DeactivateLeaf(n) ==
    /\ nodes[n].kind = "leaf" /\ nodes[n].active /\ Live(n)
    /\ deactivations < MaxDeactivations
    /\ deactivations' = deactivations + 1
    /\ LET new == new_learning_node(nodes, heap, n, nodes[n].stats, n, FALSE)
           rec == [new.rec EXCEPT !.depth = nodes[n].depth, !.cnt = nodes[n].cnt]
       IN  /\ nodes' = [nodes EXCEPT ![n] = rec]
           /\ heap' = IF rec.mref # 0 THEN [heap EXCEPT ![n] = new.models] ELSE heap
           /\ last' = [Idle EXCEPT !.op = "deactivate", !.leaf = n,
                         !.created = {Made(nodes, n, n, FALSE, new.models)}]
    /\ UNCHANGED <<leaf_prediction, split_criterion, targets, root, calls, result>>
    /\ UNCHANGED samplerVars

\* ------------------------------------------------------ RandomUnderSampler
\* Python floats are IEEE-754 doubles.  A positive double is m * 2^e with a
\* mantissa m of MantBits bits, kept as limbs of LimbBits bits, least
\* significant first; 0.0 has no limbs.  Division and multiplication by a
\* count round the exact result to the nearest double, ties to even.
LimbBits == 15
LimbBase == 32768
MantBits == 53

Zero == [m |-> <<>>, e |-> 0]
IsZero(a) == a.m = <<>>

RECURSIVE Pow2(_)
Pow2(k) == IF k = 0 THEN 1 ELSE 2 * Pow2(k - 1)

RECURSIVE SmallBits(_)
SmallBits(n) == IF n = 0 THEN 0 ELSE 1 + SmallBits(n \div 2)

RECURSIVE Trim(_)
Trim(x) == IF x # <<>> /\ x[Len(x)] = 0 THEN Trim(SubSeq(x, 1, Len(x) - 1)) ELSE x

BitLen(x) == IF x = <<>> THEN 0 ELSE LimbBits * (Len(x) - 1) + SmallBits(x[Len(x)])

\* x * g, for a small g
RECURSIVE MulFrom(_, _, _, _)
MulFrom(x, i, g, carry) ==
    IF i > Len(x) THEN (IF carry = 0 THEN <<>> ELSE <<carry>>)
    ELSE LET t == x[i] * g + carry
         IN  <<t % LimbBase>> \o MulFrom(x, i + 1, g, t \div LimbBase)
MulSmall(x, g) == Trim(MulFrom(x, 1, g, 0))

\* x divided by a small g: quotient and remainder
RECURSIVE DivFrom(_, _, _, _)
DivFrom(x, i, g, r) ==
    IF i = 0 THEN [q |-> <<>>, r |-> r]
    ELSE LET t    == r * LimbBase + x[i]
             rest == DivFrom(x, i - 1, g, t % g)
         IN  [q |-> Append(rest.q, t \div g), r |-> rest.r]
DivSmall(x, g) == LET d == DivFrom(x, Len(x), g, 0) IN [q |-> Trim(d.q), r |-> d.r]

RECURSIVE Inc(_)
Inc(x) == IF x = <<>> THEN <<1>>
          ELSE IF x[1] + 1 < LimbBase THEN <<x[1] + 1>> \o Tail(x)
          ELSE <<0>> \o Inc(Tail(x))

\* x < y for trimmed limb sequences
LessNat(x, y) ==
    \/ Len(x) < Len(y)
    \/ /\ Len(x) = Len(y)
       /\ \E i \in 1..Len(x) : x[i] < y[i] /\ \A j \in (i + 1)..Len(x) : x[j] = y[j]

\* the double nearest to n * 2^e, ties to even, for n of at least MantBits
\* bits; inexact says n was already cut short of the value to be rounded
Round(n, e, inexact) ==
    LET s    == BitLen(n) - MantBits
        d    == DivSmall(n, Pow2(s))
        half == IF s = 0 THEN 0 ELSE Pow2(s - 1)
        odd  == d.q[1] % 2 = 1
        up   == s > 0 /\ (d.r > half \/ (d.r = half /\ (inexact \/ odd)))
        m    == IF up THEN Inc(d.q) ELSE d.q
    IN  IF BitLen(m) > MantBits
        THEN [m |-> DivSmall(m, 2).q, e |-> e + s + 1]
        ELSE [m |-> m, e |-> e + s]

\* the float a / g, g a positive count
FloatDivInt(a, g) ==
    IF IsZero(a) THEN Zero
    ELSE LET d == DivSmall(<<0>> \o a.m, g)
         IN  Round(d.q, a.e - LimbBits, d.r # 0)

\* the float a * g, g a positive count
FloatMulInt(a, g) ==
    IF IsZero(a) THEN Zero ELSE Round(MulSmall(a.m, g), a.e, FALSE)

\* a < b for floats that are positive or zero
FloatLess(a, b) ==
    IF IsZero(b) THEN FALSE
    ELSE IF IsZero(a) THEN TRUE
    ELSE a.e < b.e \/ (a.e = b.e /\ LessNat(a.m, b.m))

\* the doubles 0.43, 0.57, 0.5, 0.3 and 0.2
F043 == [m |-> <<27525, 28835, 5242, 220>>, e |-> -54]
F057 == [m |-> <<2621, 18350, 30146, 145>>, e |-> -53]
F05  == [m |-> <<0, 0, 0, 128>>, e |-> -53]
F03  == [m |-> <<13107, 26214, 19660, 153>>, e |-> -54]
F02  == [m |-> <<6554, 13107, 26214, 204>>, e |-> -55]

DesiredDists ==
    { [c \in Classes |-> IF c = "a" THEN F043 ELSE IF c = "b" THEN F057 ELSE Zero],
      [c \in Classes |-> IF c = "a" THEN F05 ELSE IF c = "b" THEN F03 ELSE F02] }

Seen(ord) == {ord[i] : i \in 1..Len(ord)}

\* max(g.keys(), key=lambda y: f[y] / g[y]): the first key of the largest ratio
ArgMax(ord, f, g) ==
    LET key == [i \in 1..Len(ord) |-> FloatDivInt(f[ord[i]], g[ord[i]])]
    IN  ord[CHOOSE i \in 1..Len(ord) :
                \A j \in 1..Len(ord) : /\ j < i => FloatLess(key[j], key[i])
                                       /\ j > i => ~FloatLess(key[i], key[j])]

\* a faulty variant of Accepts: the test is ratio <= 1
AcceptsUpToOne(f, g, p, y, u) ==
    LET D == FloatMulInt(FloatDivInt(f[p], g[p]), g[y])
    IN  /\ ~FloatLess(D, f[y])
        /\ (u \/ D = f[y])
        /\ ~IsZero(f[y])

\* ratio < 1 and self._rng.random() < ratio, where M = f[p] / g[p] and
\* ratio = f[y] / (M * g[y]).  A quotient of two doubles rounds below 1 exactly
\* when the dividend is the smaller one, so ratio < 1 is f[y] < M * g[y];
\* u says the draw in [0, 1) fell below the ratio, which no draw does when the
\* ratio is 0.
Accepts(f, g, p, y, u) ==
    LET D == FloatMulInt(FloatDivInt(f[p], g[p]), g[y])
    IN  /\ FloatLess(f[y], D)
        /\ u
        /\ ~IsZero(f[y])

\* RandomUnderSampler.fit_one(x, y)
FitOne(y, u) ==
    /\ actual_dist[y] < MaxCount
    /\ LET f   == desired_dist
           g   == [actual_dist EXCEPT ![y] = @ + 1]
           ord == IF y \in Seen(order) THEN order ELSE Append(order, y)
           p   == ArgMax(ord, f, g)
           \* M = 0.0 makes the division by M * g[y] raise ZeroDivisionError
           raises == y # pivot /\ IsZero(f[p])
           n   == IF y = pivot THEN 1
                  ELSE IF raises THEN 0
                  ELSE IF Accepts(f, g, p, y, u) THEN 1 ELSE 0
       IN  /\ actual_dist' = g
           /\ order' = ord
           /\ pivot' = IF y # pivot THEN p ELSE pivot
           /\ fit' = [op |-> "fit_one", y |-> y, pivot |-> pivot, before |-> actual_dist,
                      fitted |-> n, raised |-> raises]
    /\ UNCHANGED desired_dist
    /\ UNCHANGED treeVars

\* ------------------------------------------------------------ specifications
TreeInit ==
    /\ leaf_prediction = leaf_prediction_setter(MODEL)
    /\ split_criterion = split_criterion_setter(ICVR)
    /\ targets = {}
    /\ root = NoNode
    /\ nodes = [i \in Ids |-> FreeNode]
    /\ heap = [i \in Ids |-> EmptyModels]
    /\ calls = 0
    /\ deactivations = 0
    /\ last = Idle
    /\ result = Unset

SamplerInit ==
    /\ actual_dist = [c \in Classes |-> 0]
    /\ order = <<>>
    /\ pivot = NoPivot
    /\ fit = [op |-> "init", y |-> NoPivot, pivot |-> NoPivot,
              before |-> [c \in Classes |-> 0], fitted |-> 0, raised |-> FALSE]

Init ==
    /\ TreeInit
    /\ SamplerInit
    /\ desired_dist = [c \in Classes |-> IF c = "a" THEN F05 ELSE IF c = "b" THEN F03 ELSE F02]

\* The configuration is set before training starts: the setters run while the
\* tree is empty.  The memory limit may deactivate a leaf between two calls.
Next ==
    \/ \E v \in LeafPredictionArgs : root = NoNode /\ SetLeafPrediction(v)
    \/ \E v \in SplitCriterionArgs : root = NoNode /\ SetSplitCriterion(v)
    \/ \E x \in XSet, yw \in YWSet, commit \in BOOLEAN : LearnOne(x, yw[1], yw[2], commit)
    \/ \E x \in XSet : PredictOne(x)
    \/ \E n \in Ids : DeactivateLeaf(n)

Spec == Init /\ [][Next]_vars

SamplerStart ==
    /\ TreeInit
    /\ SamplerInit
    /\ desired_dist \in DesiredDists

SamplerNext == \E y \in Classes, u \in BOOLEAN : FitOne(y, u)

SamplerSpec == SamplerStart /\ [][SamplerNext]_vars

\* ------------------------------------------------------------------ claims
LearnCalled   == last.op = "learn_one"
Predicted == last.op = "predict_one"
MeanFrom(n) == [k \in Keys |-> <<nodes[n].stats.s[k], nodes[n].stats.n>>]

\* C1: the tracked target set never loses a key, and after every learn_one it
\* holds every key of that call's y.
C1_TargetsMonotone ==
    [][/\ targets \subseteq targets'
       /\ last'.op = "learn_one" => DOMAIN last'.y \subseteq targets']_vars

\* a call whose y has fewer keys than the set already tracks
C1_Witness == LearnCalled /\ targets = {"t", "u"} /\ DOMAIN last.y = {"t"}

C3_UntrainedNone == (Predicted /\ root = NoNode) => result.kind = "None"

C3_Witness == Predicted /\ root = NoNode /\ result.kind = "None"

\* C4: predict_one changes neither the structure, nor the statistics,
\* counters and models of any node, nor the tracked target set.
C4_PredictReadOnly ==
    [][last'.op = "predict_one" => UNCHANGED <<root, nodes, heap, targets>>]_vars

\* a prediction a trained leaf answered
C4_Witness == Predicted /\ result.kind = "leaf" /\ nodes[result.node].stats.n > 0

\* C5, as stated: learn_one with sample_weight = 0 leaves the tree as it was.
C5_ZeroWeightNoOp ==
    [][(last'.op = "learn_one" /\ last'.w = 0)
          => UNCHANGED <<targets, root, nodes, heap>>]_vars

\* C5, amended: learn_one with sample_weight = 0 adds no weight -- every node
\* there was keeps its kind, count, sums, sums of squares and counter, no split
\* is evaluated, only a missing root or child is filled in, with a leaf that
\* has observed nothing -- but it does merge the keys of y into the target set.
C5_ZeroWeightAddsNothing ==
    [][(last'.op = "learn_one" /\ last'.w = 0)
          => /\ targets' = targets \cup DOMAIN last'.y
             /\ ~last'.eval.ran
             /\ root # NoNode => root' = root
             /\ \A i \in Ids : nodes[i].kind # "free"
                   => /\ nodes'[i].kind = nodes[i].kind
                      /\ nodes'[i].active = nodes[i].active
                      /\ nodes'[i].stats = nodes[i].stats
                      /\ nodes'[i].cnt = nodes[i].cnt
                      /\ \A v \in Vals : nodes[i].children[v] # NoNode
                            => nodes'[i].children[v] = nodes[i].children[v]
             /\ \A i \in Ids : (nodes[i].kind = "free" /\ nodes'[i].kind # "free")
                   => /\ nodes'[i].kind = "leaf"
                      /\ nodes'[i].stats = ZeroStats
                      /\ nodes'[i].cnt = 0]_vars

\* a call of weight 0 on a trained tree that brought the key "u"
C5_Witness ==
    /\ LearnCalled /\ last.w = 0 /\ "u" \in DOMAIN last.y
    /\ last.leaf # NoNode /\ nodes[last.leaf].stats.n > 0

C7_ConfigValid ==
    /\ leaf_prediction \in {"mean", "model", "adaptive"}
    /\ split_criterion = "icvr"
    /\ last.op = "set_leaf_prediction"
          => leaf_prediction = IF last.arg \in {"mean", "model", "adaptive"}
                               THEN last.arg ELSE "model"
    /\ last.op = "set_split_criterion" => split_criterion = "icvr"

\* the setter was given an invalid value
C7_Witness ==
    last.op = "set_leaf_prediction" /\ last.arg = "bogus" /\ leaf_prediction = "model"

\* C8: in adaptive mode every leaf the factory makes from a parent starts
\* with the parent's fmse_mean and fmse_model.
C8_InheritsFadingErrors ==
    \A c \in last.created :
        (leaf_prediction = "adaptive" /\ c.parent # NoNode)
            => /\ nodes[c.id].fmse_mean = c.pmean
               /\ nodes[c.id].fmse_model = c.pmodel

\* C9: a leaf made from a parent starts with the content of the parent's model
\* map, a leaf made without a parent with an empty map, and training a leaf
\* changes the model map of no other node, superseded parent and siblings
\* included.
C9_OwnModelCopy ==
    /\ [](\A c \in last.created :
             c.models = IF c.parent = NoNode \/ leaf_prediction = "mean"
                        THEN EmptyModels ELSE ModelsOf(nodes, heap, c.parent))
    /\ [][last'.op = "learn_one"
             => \A i \in Ids : (nodes[i].kind # "free" /\ i # last'.leaf)
                   => ModelsOf(nodes', heap', i) = ModelsOf(nodes, heap, i)]_vars

\* a child of a split was trained and its models now differ from a sibling's
C9_Witness ==
    /\ LearnCalled /\ leaf_prediction \in {"model", "adaptive"} /\ last.leaf # NoNode
    /\ \E p \in Ids, v \in Vals, u \in Vals :
          /\ nodes[p].kind = "split"
          /\ nodes[p].children[v] = last.leaf
          /\ nodes[p].children[u] # NoNode /\ u # v
          /\ ModelsOf(nodes, heap, last.leaf) # ModelsOf(nodes, heap, nodes[p].children[u])
          /\ ModelsOf(nodes, heap, last.leaf) # EmptyModels

Fitted == fit.op = "fit_one"

\* the call made its own class the pivot, in place of another one
NewPivot == Fitted /\ fit.y # fit.pivot /\ pivot = fit.y

\* C10, as stated: a fit_one call counts its class once and passes the sample
\* to the classifier at most once: once when the class was the pivot, and not
\* at all when the call makes the class the new pivot.
C10_NeverOverSamples ==
    Fitted => /\ actual_dist = [fit.before EXCEPT ![fit.y] = @ + 1]
              /\ fit.fitted <= 1
              /\ fit.y = fit.pivot => fit.fitted = 1
              /\ NewPivot => fit.fitted = 0

\* C10, amended: as stated, except that a call that makes its class the new
\* pivot does pass the sample when the rounded product (f[y] / g[y]) * g[y]
\* is above f[y], which leaves the ratio one rounding step below 1.
C10_AtMostOnce ==
    Fitted => /\ actual_dist = [fit.before EXCEPT ![fit.y] = @ + 1]
              /\ fit.fitted <= 1
              /\ fit.y = fit.pivot => fit.fitted = 1
              /\ NewPivot =>
                    (fit.fitted = 1 =>
                        FloatLess(desired_dist[fit.y],
                                  FloatMulInt(FloatDivInt(desired_dist[fit.y],
                                                          actual_dist[fit.y]),
                                              actual_dist[fit.y])))

\* a call that took the pivot from another class and passed nothing on
C10_Witness ==
    NewPivot /\ fit.pivot # NoPivot /\ ~fit.raised /\ fit.fitted = 0
====
